---- MODULE Spec2Model ----
(***************************************************************************)
(* A state-machine model of train_GMVAE (src/train_GMVAE.py): one call     *)
(* runs one epoch over the batches of a data loader, computes the          *)
(* composite loss of every batch, drives the optimizer and, on the         *)
(* checkpoint schedule, saves five artifacts under base_dir.               *)
(*                                                                         *)
(* Tensors are abstracted: a tensor is its shape and a content id, the     *)
(* latent statistics mus, logvars and pis are one integer per sample, and  *)
(* the scalar results of the numeric library (F.mse_loss, zinb_loss, the   *)
(* KL sum) are integers drawn from small sets.  Every statement of the     *)
(* function that a claim distinguishes is one action, and pc is the        *)
(* statement about to run.                                                 *)
(***************************************************************************)
EXTENDS Integers, Sequences, FiniteSets, TLC

\* ------------------------------------------------------------------ bounds
\* Batches a data loader yields in one epoch: 0 .. MaxBatches.
MaxBatches == 2
\* Samples in a batch: 1 .. MaxRows.
MaxRows == 2
\* Per-sample latent values and tensor content ids: 0 .. MaxVal.
MaxVal == 1
\* Loss components drawn in the driver specification: 0 .. MaxLoss.
MaxLoss == 1
\* Loss components and KL terms drawn in the loss specification.
WideLoss == 3
WideKl == 3
WideKlWeight == 2
\* Columns of the feature matrix of every batch.
Cols == 2
\* Epochs around the checkpoint period in the driver specification.
EpochSpan == 1
\* Epochs of the schedule specification beyond two checkpoint periods.
ExtraEpochs == 0

\* --------------------------------------------------------------- constants
\* (epoch+1) % 10 == 0
SavePeriod == 10
\* loss_recon*5
ReconWeight == 5
\* fraction_loss*10
FractionWeight == 10
\* 1 if loss_kl_weighted > 1
KlCeiling == 1
\* ----------------------------------------------------------------- helpers
RECURSIVE SumSeq(_)
SumSeq(s) == IF s = <<>> THEN 0 ELSE Head(s) + SumSeq(Tail(s))

RECURSIVE Gcd(_, _)
Gcd(a, b) == IF b = 0 THEN a ELSE Gcd(b, a % b)

Abs(x) == IF x < 0 THEN -x ELSE x

\* Mutant of Mean0: the sum over the sample axis instead of the mean.
Mean0_Sum(t) == <<SumSeq(t), 1>>

\* The mean over the sample axis, as a reduced fraction <<numerator, denominator>>.
Mean0(t) ==
    LET g == Gcd(Abs(SumSeq(t)), Len(t))
    IN  <<SumSeq(t) \div g, Len(t) \div g>>

\* All sequences of length n over S.
SeqsOf(S, n) == [1..n -> S]

\* A path is the sequence of its pieces; "/" is the separator piece.
Sep == "/"

\* base_dir + suffix: defined for a str, a TypeError for a pathlib.Path.
StrConcat(base, suffix) ==
    IF base.kind = "str"
    THEN [ok |-> TRUE, path |-> base.toks \o suffix]
    ELSE [ok |-> FALSE, path |-> <<>>]

\* The string literal each torch.save appends to base_dir, per branch.
ArtifactSuffix(br, artifact) ==
    CASE artifact = "reconstructed" ->
            IF br = "periodic" THEN <<Sep, "GMVAE_reconstructed.pt">>
                               ELSE <<"GMVAE_reconstructed.pt">>
      [] artifact = "mus"     -> <<Sep, "GMVAE_mus.pt">>
      [] artifact = "logvars" -> <<Sep, "GMVAE_logvars.pt">>
      [] artifact = "pis"     -> <<Sep, "GMVAE_pis.pt">>
      [] artifact = "model"   ->
            IF br = "periodic" THEN <<"GMVAE_model.pt">>
                               ELSE <<Sep, "GMVAE_model.pt">>
      [] artifact = "umap_latent" -> <<"umap_latent.png">>
      [] artifact = "umap_recon"  -> <<"umap_recon.png">>

\* Mutant of PeriodicCond: the final epoch is not excluded.
PeriodicCond_NoFinalGuard(e, m) == (e + 1) % SavePeriod = 0

\* if ((epoch+1) % 10 == 0) and (epoch != max_epochs - 1)
PeriodicCond(e, m) == ((e + 1) % SavePeriod = 0) /\ (e # m - 1)

\* elif epoch == max_epochs - 1
FinalCond(e, m) == e = m - 1

\* The branch of the if / elif the call takes.
Branch(e, m) ==
    IF PeriodicCond(e, m) THEN "periodic"
    ELSE IF FinalCond(e, m) THEN "final"
    ELSE "none"

\* Mutant of KlClamp: no ceiling.
KlClamp_NoClamp(klw) == klw

\* loss_kl_weighted = 1 if loss_kl_weighted > 1 else loss_kl_weighted
KlClamp(klw) == IF klw > KlCeiling THEN KlCeiling ELSE klw

\* Mutant of CompositeLoss: the weights of the two mean-squared errors swapped.
CompositeLoss_SwappedWeights(recon, zinb, frac, klw) ==
    recon * FractionWeight + zinb + (frac * ReconWeight) + klw

\* loss = loss_recon*5 + zinb_loss_val + (fraction_loss*10) + loss_kl_weighted
CompositeLoss(recon, zinb, frac, klw) ==
    recon * ReconWeight + zinb + (frac * FractionWeight) + klw

\* ---------------------------------------------------------------- inputs
NoDir   == [kind |-> "none", toks |-> <<>>]
StrDir  == [kind |-> "str",  toks |-> <<"out">>]
StrDirSlash == [kind |-> "str", toks |-> <<"out", Sep>>]
PathDir == [kind |-> "path", toks |-> <<"out">>]
BaseDirs == {NoDir, StrDir, StrDirSlash, PathDir}

Zeros(n) == [i \in 1..n |-> 0]

\* Model outputs <<mus, logvars, pis>> that are all zero.
ZeroLatents(rowset) == { <<Zeros(n), Zeros(n), Zeros(n)>> : n \in rowset }

\* Model outputs <<mus, logvars, pis>> in which one statistic takes every value
\* over vals and the other two are zero.
OneVaried(vals, rowset) ==
    UNION { UNION { { <<m, Zeros(n), Zeros(n)>>, <<Zeros(n), m, Zeros(n)>>,
                      <<Zeros(n), Zeros(n), m>> } : m \in SeqsOf(vals, n) }
            : n \in rowset }

\* The inputs the driver specification draws: up to MaxBatches batches with
\* varying losses, the epochs around the checkpoint period, every base_dir.
DriverInputs ==
    [epochs  |-> (SavePeriod - 1 - EpochSpan) .. (SavePeriod - 1),
     maxes   |-> (SavePeriod - EpochSpan) .. (SavePeriod + EpochSpan),
     dirs    |-> BaseDirs,
     klws    |-> {1},
     plots   |-> BOOLEAN,
     batches |-> MaxBatches,
     rows    |-> 1 .. MaxRows,
     ids     |-> {0},
     latents |-> ZeroLatents(1 .. MaxRows),
     recon   |-> 0 .. MaxLoss,
     zinb    |-> {0},
     frac    |-> {0},
     kl      |-> 0 .. MaxLoss]

\* The inputs the checkpoint specification draws: varying model outputs over
\* up to MaxBatches batches, a periodic and a final checkpoint.
CheckpointInputs ==
    [epochs  |-> {SavePeriod - 1},
     maxes   |-> {SavePeriod, SavePeriod + 1},
     dirs    |-> {StrDir},
     klws    |-> {0},
     plots   |-> BOOLEAN,
     batches |-> MaxBatches,
     rows    |-> 1 .. MaxRows,
     ids     |-> 0 .. MaxVal,
     latents |-> OneVaried(0 .. MaxVal, 1 .. MaxRows),
     recon   |-> {0},
     zinb    |-> {0},
     frac    |-> {0},
     kl      |-> 0 .. MaxLoss]

\* The inputs the schedule specification draws: every epoch and max_epochs
\* over two checkpoint periods, one batch at most.
ScheduleInputs ==
    [epochs  |-> 0 .. (2 * SavePeriod - 1 + ExtraEpochs),
     maxes   |-> 1 .. (2 * SavePeriod + ExtraEpochs),
     dirs    |-> {StrDir},
     klws    |-> {1},
     plots   |-> BOOLEAN,
     batches |-> 1,
     rows    |-> {1},
     ids     |-> {0},
     latents |-> ZeroLatents({1}),
     recon   |-> {0},
     zinb    |-> {0},
     frac    |-> {0},
     kl      |-> {0}]

\* The inputs the loss specification draws: wide loss components and KL
\* weights, negative ones included, in one batch of a checkpointing epoch.
LossInputs ==
    [epochs  |-> {SavePeriod - 1},
     maxes   |-> {SavePeriod + 1},
     dirs    |-> {StrDir},
     klws    |-> (-1) .. WideKlWeight,
     plots   |-> {TRUE},
     batches |-> 1,
     rows    |-> {1},
     ids     |-> {0},
     latents |-> ZeroLatents({1}),
     recon   |-> 0 .. WideLoss,
     zinb    |-> (-1) .. WideLoss,
     frac    |-> 0 .. WideLoss,
     kl      |-> 0 .. WideKl]

\* ------------------------------------------------------------------ state
VARIABLES
    pc,               \* the statement about to run, or idle / returned / raised
    err,              \* the exception that ended the call: [type, line]
    epoch, max_epochs, base_dir, kl_weight, plot_umap,    \* arguments
    mode,             \* the model's mode: "Training" or "Evaluation"
    idx,              \* index of the current batch; -1 before the first
    data,             \* shape of the current batch's features: <<rows, cols>>
    reconstructed, mus, logvars, pis,                     \* model output
    fraction_loss, loss_recon, zinb_loss_val, loss_kl, loss_kl_weighted, loss,
    total_loss,
    summary,          \* the metrics printed after the loop
    branch,           \* the checkpoint branch taken: none / periodic / final
    writes,           \* files written by this call, in order: [path, content]
    attempted,        \* save statements executed by this call, in order
    retval,           \* the value returned
    \* history of the call, read by the properties only
    oplog,            \* operations done on the current batch, in order
    nForward, nLoss, nBackward, nStep, nAccum,
    losses,           \* loss.item() of every batch accumulated
    last,             \* forward output and loss components of the latest batch
    prevEval          \* the call started with the model in Evaluation mode

args   == <<epoch, max_epochs, base_dir, kl_weight, plot_umap>>
output == <<reconstructed, mus, logvars, pis>>
comps  == <<fraction_loss, loss_recon, zinb_loss_val, loss_kl, loss_kl_weighted, loss>>
counts == <<nForward, nLoss, nBackward, nStep, nAccum>>
ckpt   == <<branch, writes, attempted>>
vars   == <<pc, err, args, mode, idx, data, output, comps, total_loss, summary,
            ckpt, retval, oplog, counts, losses, last, prevEval>>

NoErr == [type |-> "none", line |-> 0]
NoTensor == [shape |-> <<0, 0>>, id |-> 0]
NoLast == [idx |-> -1, reconstructed |-> NoTensor, mus |-> <<>>, logvars |-> <<>>,
           pis |-> <<>>, steps |-> 0,
           fraction_loss |-> 0, loss_recon |-> 0, loss_kl |-> 0,
           loss_kl_weighted |-> 0, lossIdx |-> -1]
NoSummary == [printed |-> FALSE, fraction_loss |-> 0, loss_kl |-> 0,
              loss_kl_weighted |-> 0, kl_weight |-> 0, loss_recon |-> 0]

Terminal == {"returned", "raised"}

\* The locals of a call before its first statement.
FreshLocals ==
    /\ idx = -1 /\ data = <<0, 0>>
    /\ reconstructed = NoTensor /\ mus = <<>> /\ logvars = <<>> /\ pis = <<>>
    /\ fraction_loss = 0 /\ loss_recon = 0 /\ zinb_loss_val = 0
    /\ loss_kl = 0 /\ loss_kl_weighted = 0 /\ loss = 0
    /\ total_loss = 0 /\ summary = NoSummary
    /\ branch = "none" /\ writes = <<>> /\ attempted = <<>> /\ retval = 0
    /\ oplog = <<>>
    /\ nForward = 0 /\ nLoss = 0 /\ nBackward = 0 /\ nStep = 0 /\ nAccum = 0
    /\ losses = <<>> /\ last = NoLast

\* A new call starts with fresh locals (line 28: total_loss = 0).
ResetLocals ==
    /\ idx' = -1 /\ data' = <<0, 0>>
    /\ reconstructed' = NoTensor /\ mus' = <<>> /\ logvars' = <<>> /\ pis' = <<>>
    /\ fraction_loss' = 0 /\ loss_recon' = 0 /\ zinb_loss_val' = 0
    /\ loss_kl' = 0 /\ loss_kl_weighted' = 0 /\ loss' = 0
    /\ total_loss' = 0 /\ summary' = NoSummary
    /\ branch' = "none" /\ writes' = <<>> /\ attempted' = <<>> /\ retval' = 0
    /\ oplog' = <<>>
    /\ nForward' = 0 /\ nLoss' = 0 /\ nBackward' = 0 /\ nStep' = 0 /\ nAccum' = 0
    /\ losses' = <<>> /\ last' = NoLast

\* The model is constructed in training mode; no call has started.
Init ==
    /\ pc = "idle" /\ err = NoErr
    /\ epoch = 0 /\ max_epochs = 1 /\ base_dir = NoDir /\ kl_weight = 0
    /\ plot_umap = FALSE
    /\ mode = "Training"
    /\ prevEval = FALSE
    /\ FreshLocals

Raise(type, line) == pc' = "raised" /\ err' = [type |-> type, line |-> line]

\* ---------------------------------------------------------------- actions
\* Mutant of Call: line 27, model.train(), is missing.
Call_NoTrain(P) ==
    /\ pc = "idle"
    /\ \E e \in P.epochs, m \in P.maxes, d \in P.dirs, w \in P.klws, pl \in P.plots :
        /\ epoch' = e /\ max_epochs' = m /\ base_dir' = d
        /\ kl_weight' = w /\ plot_umap' = pl
        /\ IF d.kind \notin {"str", "path"}
           THEN Raise("AssertionError", 25)
           ELSE pc' = "loop" /\ err' = NoErr
    /\ mode' = mode
    /\ prevEval' = (mode = "Evaluation")
    /\ ResetLocals

\* Lines 24-29: the caller starts an epoch.
Call(P) ==
    /\ pc = "idle"
    /\ \E e \in P.epochs, m \in P.maxes, d \in P.dirs, w \in P.klws, pl \in P.plots :
        /\ epoch' = e /\ max_epochs' = m /\ base_dir' = d
        /\ kl_weight' = w /\ plot_umap' = pl
        /\ IF d.kind \notin {"str", "path"}
           THEN Raise("AssertionError", 25) /\ mode' = mode
           ELSE pc' = "loop" /\ err' = NoErr /\ mode' = "Training"
    /\ prevEval' = (mode = "Evaluation")
    /\ ResetLocals

\* Line 31: the data loader yields the next batch, or is exhausted.
LoopNext(P) ==
    /\ pc = "loop"
    /\ \/ /\ idx + 1 < P.batches
          /\ \E r \in P.rows : data' = <<r, Cols>>
          /\ idx' = idx + 1
          /\ oplog' = <<>>
          /\ pc' = "zero_grad"
       \/ /\ pc' = "summary"
          /\ UNCHANGED <<idx, data, oplog>>
    /\ UNCHANGED <<err, args, mode, output, comps, total_loss, summary, ckpt,
                   retval, counts, losses, last, prevEval>>

\* Line 38: optimizer.zero_grad()
ZeroGrad ==
    /\ pc = "zero_grad"
    /\ oplog' = Append(oplog, "zero_grad")
    /\ pc' = "forward"
    /\ UNCHANGED <<err, args, mode, idx, data, output, comps, total_loss, summary,
                   ckpt, retval, counts, losses, last, prevEval>>

\* Line 39: reconstructed, mus, logvars, pis, zs = model(data, labels)
Forward(P) ==
    /\ pc = "forward"
    /\ \E shape \in {data, <<data[1], Cols - 1>>}, id \in P.ids,
          lat \in {l \in P.latents : Len(l[1]) = data[1]} :
        /\ reconstructed' = [shape |-> shape, id |-> id]
        /\ mus' = lat[1] /\ logvars' = lat[2] /\ pis' = lat[3]
        /\ last' = [last EXCEPT !.idx = idx, !.reconstructed = reconstructed',
                                !.mus = lat[1], !.logvars = lat[2],
                                !.pis = lat[3], !.steps = nStep]
    /\ nForward' = nForward + 1
    /\ oplog' = Append(oplog, "forward")
    /\ pc' = "shape_check"
    /\ UNCHANGED <<err, args, mode, idx, data, comps, total_loss, summary, ckpt,
                   retval, nLoss, nBackward, nStep, nAccum, losses, prevEval>>

\* Mutant of ShapeCheck: the assertion is missing.
ShapeCheck_Skipped ==
    /\ pc = "shape_check"
    /\ oplog' = Append(oplog, "shape_check")
    /\ pc' = "loss"
    /\ UNCHANGED <<err, args, mode, idx, data, output, comps, total_loss, summary,
                   ckpt, retval, counts, losses, last, prevEval>>

\* Line 49: assert(reconstructed.shape == data.shape)
ShapeCheck ==
    /\ pc = "shape_check"
    /\ oplog' = Append(oplog, "shape_check")
    /\ IF reconstructed.shape = data
       THEN pc' = "loss" /\ err' = err
       ELSE Raise("AssertionError", 49)
    /\ UNCHANGED <<args, mode, idx, data, output, comps, total_loss, summary, ckpt,
                   retval, counts, losses, last, prevEval>>

\* Lines 51-68: the four components, the clamp and the total.
ComputeLoss(P) ==
    /\ pc = "loss"
    /\ \E f \in P.frac, r \in P.recon, z \in P.zinb, k \in P.kl :
        /\ fraction_loss' = f /\ loss_recon' = r /\ zinb_loss_val' = z
        /\ loss_kl' = k
        /\ loss_kl_weighted' = KlClamp(k * kl_weight)
        /\ loss' = CompositeLoss(r, z, f, loss_kl_weighted')
        /\ last' = [last EXCEPT !.fraction_loss = f, !.loss_recon = r,
                                !.loss_kl = k,
                                !.loss_kl_weighted = loss_kl_weighted',
                                !.lossIdx = idx]
    /\ nLoss' = nLoss + 1
    /\ oplog' = Append(oplog, "loss")
    /\ pc' = "backward"
    /\ UNCHANGED <<err, args, mode, idx, data, output, total_loss, summary, ckpt,
                   retval, nForward, nBackward, nStep, nAccum, losses, prevEval>>

\* Line 69: loss.backward()
Backward ==
    /\ pc = "backward"
    /\ nBackward' = nBackward + 1
    /\ oplog' = Append(oplog, "backward")
    /\ pc' = "step"
    /\ UNCHANGED <<err, args, mode, idx, data, output, comps, total_loss, summary,
                   ckpt, retval, nForward, nLoss, nStep, nAccum, losses, last,
                   prevEval>>

\* Mutant of OptimizerStep: the step is taken after the loss is accumulated,
\* that is, not here.
OptimizerStep_Skipped ==
    /\ pc = "step"
    /\ pc' = "accumulate"
    /\ UNCHANGED <<err, args, mode, idx, data, output, comps, total_loss, summary,
                   ckpt, retval, oplog, counts, losses, last, prevEval>>

\* Line 76: optimizer.step()
OptimizerStep ==
    /\ pc = "step"
    /\ nStep' = nStep + 1
    /\ oplog' = Append(oplog, "step")
    /\ pc' = "accumulate"
    /\ UNCHANGED <<err, args, mode, idx, data, output, comps, total_loss, summary,
                   ckpt, retval, nForward, nLoss, nBackward, nAccum, losses, last,
                   prevEval>>

\* Lines 77-78: total_loss += loss.item()
Accumulate ==
    /\ pc = "accumulate"
    /\ total_loss' = total_loss + loss
    /\ losses' = Append(losses, loss)
    /\ nAccum' = nAccum + 1
    /\ oplog' = Append(oplog, "accumulate")
    /\ pc' = "loop"
    /\ UNCHANGED <<err, args, mode, idx, data, output, comps, summary, ckpt,
                   retval, nForward, nLoss, nBackward, nStep, last, prevEval>>

\* Lines 80-85: print the loop's last values; with no batch they are unbound.
Summary ==
    /\ pc = "summary"
    /\ IF idx = -1
       THEN Raise("UnboundLocalError", 80) /\ summary' = summary
       ELSE /\ summary' = [printed |-> TRUE, fraction_loss |-> fraction_loss,
                           loss_kl |-> loss_kl,
                           loss_kl_weighted |-> loss_kl_weighted,
                           kl_weight |-> kl_weight, loss_recon |-> loss_recon]
            /\ pc' = "decide" /\ err' = err
    /\ UNCHANGED <<args, mode, idx, data, output, comps, total_loss, ckpt, retval,
                   oplog, counts, losses, last, prevEval>>

\* Lines 87 and 154: the if / elif that selects the checkpoint branch.
Decide ==
    /\ pc = "decide"
    /\ branch' = Branch(epoch, max_epochs)
    /\ pc' = IF branch' = "none" THEN "return" ELSE "save_reconstructed"
    /\ UNCHANGED <<err, args, mode, idx, data, output, comps, total_loss, summary,
                   writes, attempted, retval, oplog, counts, losses, last,
                   prevEval>>

\* The source line of each save statement, per branch.
SaveLine(br, artifact) ==
    CASE artifact = "reconstructed" -> IF br = "periodic" THEN 93 ELSE 162
      [] artifact = "mus"     -> IF br = "periodic" THEN 101 ELSE 170
      [] artifact = "logvars" -> IF br = "periodic" THEN 102 ELSE 171
      [] artifact = "pis"     -> IF br = "periodic" THEN 103 ELSE 172
      [] artifact = "model"   -> IF br = "periodic" THEN 107 ELSE 176
      [] artifact = "umap_latent" -> 139
      [] artifact = "umap_recon"  -> 151

\* Mutant of SaveTo: a failed write is swallowed and the checkpoint goes on.
SaveTo_Swallow(artifact, content, next) ==
    LET target == StrConcat(base_dir, ArtifactSuffix(branch, artifact))
    IN  /\ attempted' = Append(attempted, artifact)
        /\ \E ok \in BOOLEAN :
              /\ writes' = IF ok /\ target.ok
                            THEN Append(writes, [artifact |-> artifact,
                                                 path |-> target.path,
                                                 content |-> content])
                            ELSE writes
              /\ pc' = next /\ err' = err
        /\ UNCHANGED <<args, mode, idx, data, output, comps, total_loss, summary,
                       branch, retval, oplog, counts, losses, last, prevEval>>

\* One save statement: torch.save(content, base_dir + suffix) or
\* plt.savefig(base_dir + suffix).  The concatenation may raise TypeError and
\* the write itself may fail; a write that succeeds leaves the file on disk.
SaveTo(artifact, content, next) ==
    LET target == StrConcat(base_dir, ArtifactSuffix(branch, artifact))
    IN  /\ attempted' = Append(attempted, artifact)
        /\ IF ~target.ok
           THEN Raise("TypeError", SaveLine(branch, artifact)) /\ writes' = writes
           ELSE \E ok \in BOOLEAN :
                  IF ok
                  THEN /\ writes' = Append(writes, [artifact |-> artifact,
                                                     path |-> target.path,
                                                     content |-> content])
                       /\ pc' = next /\ err' = err
                  ELSE Raise("OSError", SaveLine(branch, artifact)) /\ writes' = writes
        /\ UNCHANGED <<args, mode, idx, data, output, comps, total_loss, summary,
                       branch, retval, oplog, counts, losses, last, prevEval>>

\* Lines 93 and 162: torch.save(reconstructed, ...)
SaveReconstructed ==
    /\ pc = "save_reconstructed"
    /\ SaveTo("reconstructed", reconstructed, "means")

\* Lines 95-97 and 164-166: mus, logvars, pis = their means over axis 0.
TakeMeans ==
    /\ pc = "means"
    /\ mus' = Mean0(mus) /\ logvars' = Mean0(logvars) /\ pis' = Mean0(pis)
    /\ pc' = "save_mus"
    /\ UNCHANGED <<err, args, mode, idx, data, reconstructed, comps, total_loss,
                   summary, ckpt, retval, oplog, counts, losses, last, prevEval>>

\* Lines 101 and 170
SaveMus ==
    /\ pc = "save_mus"
    /\ SaveTo("mus", mus, "save_logvars")

\* Lines 102 and 171
SaveLogvars ==
    /\ pc = "save_logvars"
    /\ SaveTo("logvars", logvars, "save_pis")

\* Lines 103 and 172
SavePis ==
    /\ pc = "save_pis"
    /\ SaveTo("pis", pis, "eval")

\* Lines 106 and 175: model.eval()
ModelEval ==
    /\ pc = "eval"
    /\ mode' = "Evaluation"
    /\ pc' = "save_model"
    /\ UNCHANGED <<err, args, idx, data, output, comps, total_loss, summary, ckpt,
                   retval, oplog, counts, losses, last, prevEval>>

\* Lines 107 and 176: torch.save(model.state_dict(), ...); line 110: if plot_umap
SaveModel ==
    /\ pc = "save_model"
    /\ SaveTo("model", "state_dict",
              IF branch = "periodic" /\ plot_umap THEN "plot_latent" ELSE "return")

\* Lines 111-140: the latent embedding, saved as an image.
PlotLatent ==
    /\ pc = "plot_latent"
    /\ SaveTo("umap_latent", "figure", "plot_recon")

\* Lines 142-152: the reconstruction embedding, saved as an image.
PlotRecon ==
    /\ pc = "plot_recon"
    /\ SaveTo("umap_recon", "figure", "return")

\* Line 179: return total_loss
Return ==
    /\ pc = "return"
    /\ retval' = total_loss
    /\ pc' = "returned"
    /\ UNCHANGED <<err, args, mode, idx, data, output, comps, total_loss, summary,
                   ckpt, oplog, counts, losses, last, prevEval>>

\* The call has returned or raised: its frame is dropped and the caller may
\* start the next epoch.  Only the model's mode outlives the call.
Release ==
    /\ pc \in Terminal
    /\ pc' = "idle" /\ err' = NoErr
    /\ epoch' = 0 /\ max_epochs' = 1 /\ base_dir' = NoDir /\ kl_weight' = 0
    /\ plot_umap' = FALSE
    /\ prevEval' = FALSE
    /\ ResetLocals
    /\ UNCHANGED mode

\* ---------------------------------------------------------- specifications
Next(P) ==
    \/ Call(P)
    \/ LoopNext(P)
    \/ ZeroGrad
    \/ Forward(P)
    \/ ShapeCheck
    \/ ComputeLoss(P)
    \/ Backward
    \/ OptimizerStep
    \/ Accumulate
    \/ Summary
    \/ Decide
    \/ SaveReconstructed
    \/ TakeMeans
    \/ SaveMus
    \/ SaveLogvars
    \/ SavePis
    \/ ModelEval
    \/ SaveModel
    \/ PlotLatent
    \/ PlotRecon
    \/ Return
    \/ Release

\* The epoch driver over small batches, around the checkpoint period.
Spec == Init /\ [][Next(DriverInputs)]_vars

\* The checkpoint contents over varying model outputs.
SpecCheckpoint == Init /\ [][Next(CheckpointInputs)]_vars

\* The checkpoint schedule over every epoch and max_epochs of two periods.
SpecSchedule == Init /\ [][Next(ScheduleInputs)]_vars

\* The composite loss over wide component values and KL weights.
SpecLoss == Init /\ [][Next(LossInputs)]_vars

\* ------------------------------------------------------------- properties
BatchPcs == {"zero_grad", "forward", "shape_check", "loss", "backward", "step",
             "accumulate"}
SavePcs == {"save_reconstructed", "means", "save_mus", "save_logvars", "save_pis",
            "eval", "save_model", "plot_latent", "plot_recon"}

IsPrefix(s, t) == Len(s) <= Len(t) /\ \A i \in 1..Len(s) : s[i] = t[i]

\* The call is past the if / elif of lines 87 and 154.
PastDecide ==
    \/ pc \in SavePcs \cup {"return", "returned"}
    \/ pc = "raised" /\ err.line >= 93

\* A save statement of the checkpoint failed.
WriteFailed == pc = "raised" /\ err.type \in {"OSError", "TypeError"}

\* The assertion of line 49 failed.
ShapeMismatchRaised == pc = "raised" /\ err = [type |-> "AssertionError", line |-> 49]

\* C1: when a call reaches the end of the epoch, the periodic branch runs
\* exactly when (epoch+1) % 10 = 0 and epoch # max_epochs - 1, the final branch
\* exactly when epoch = max_epochs - 1, never both; outside a branch no save
\* statement runs and nothing is written.
C1_CheckpointSchedule ==
    /\ PastDecide =>
         /\ (branch = "periodic") <=> ((epoch + 1) % 10 = 0 /\ epoch # max_epochs - 1)
         /\ (branch = "final") <=> (epoch = max_epochs - 1)
         /\ branch \in {"periodic", "final", "none"}
         /\ (branch = "none") => (attempted = <<>> /\ writes = <<>>)
         /\ (branch = "final") => \A i \in 1..Len(attempted) :
                                     attempted[i] \notin {"umap_latent", "umap_recon"}
    /\ ~PastDecide => (branch = "none" /\ attempted = <<>> /\ writes = <<>>)

\* C1 witness: epoch 9 of 10 ran the final branch, and only it, to the end.
C1_Witness ==
    /\ pc = "returned" /\ epoch = 9 /\ max_epochs = 10
    /\ branch = "final" /\ Len(writes) = 5

\* C2: a reconstruction whose shape differs from the input's raises at line 49
\* before any loss component of that batch is computed: no backward pass, no
\* optimizer step, no addition to total_loss for it, no later batch, no
\* checkpoint, no return value; and no batch with a differing shape gets past
\* the check.
C2_ShapeMismatchAborts ==
    /\ ShapeMismatchRaised =>
         /\ reconstructed.shape # data
         /\ nForward = idx + 1
         /\ nLoss = idx /\ last.lossIdx < idx
         /\ nBackward = idx /\ nStep = idx /\ nAccum = idx
         /\ Len(losses) = idx /\ total_loss = SumSeq(losses)
         /\ summary = NoSummary
         /\ branch = "none" /\ attempted = <<>> /\ writes = <<>>
         /\ retval = 0
    /\ pc \in {"loss", "backward", "step", "accumulate"} => reconstructed.shape = data
    /\ (pc \notin BatchPcs /\ ~ShapeMismatchRaised /\ idx >= 0) => reconstructed.shape = data

\* C2 witness: the second batch of an epoch failed the check after the first
\* was fully processed.
C2_Witness ==
    /\ ShapeMismatchRaised /\ idx = 1 /\ nStep = 1 /\ nAccum = 1

\* C3 (as claimed): a call whose batches all pass and whose checkpoint writes
\* all succeed returns the sum of the per-batch losses, for zero or more
\* batches.
C3_ReturnsSumOfBatchLosses ==
    (pc \in Terminal /\ ~ShapeMismatchRaised /\ ~WriteFailed
        /\ base_dir.kind \in {"str", "path"})
    => /\ pc = "returned"
       /\ Len(losses) = idx + 1
       /\ retval = SumSeq(losses)

\* Collapse repeated separators, as path resolution does.
RECURSIVE Collapse(_)
Collapse(path) ==
    IF Len(path) < 2 THEN path
    ELSE IF path[1] = Sep /\ path[2] = Sep THEN Collapse(Tail(path))
    ELSE <<path[1]>> \o Collapse(Tail(path))

FileName(artifact) ==
    CASE artifact = "reconstructed" -> "GMVAE_reconstructed.pt"
      [] artifact = "mus"     -> "GMVAE_mus.pt"
      [] artifact = "logvars" -> "GMVAE_logvars.pt"
      [] artifact = "pis"     -> "GMVAE_pis.pt"
      [] artifact = "model"   -> "GMVAE_model.pt"

FiveArtifacts == <<"reconstructed", "mus", "logvars", "pis", "model">>

\* C4 (as claimed): for a str or Path base_dir, every artifact a checkpoint
\* writes goes to base_dir, a separator, the artifact's name; no save statement
\* fails on the type of base_dir; a checkpoint that ran to the end wrote all
\* five.
C4_ArtifactsUnderBaseDir ==
    /\ \A i \in 1..Len(writes) :
         writes[i].artifact \in {"reconstructed", "mus", "logvars", "pis", "model"}
         => Collapse(writes[i].path)
              = Collapse(base_dir.toks \o <<Sep, FileName(writes[i].artifact)>>)
    /\ ~(pc = "raised" /\ err.type = "TypeError")
    /\ (pc = "returned" /\ branch # "none") => IsPrefix(FiveArtifacts, attempted)

\* C5 (as claimed): the batches of an epoch that starts with the model in
\* Evaluation mode, left by the previous call's checkpoint, are processed in
\* Evaluation mode.
C5_StaysInEvaluation ==
    (prevEval /\ pc \in BatchPcs) => mode = "Evaluation"

\* C5 (amended): every batch is processed in Training mode, because each call
\* sets it at line 27; within a call the model is in Evaluation mode from
\* model.eval() to the end of the call.
C5_BatchesRunInTraining ==
    /\ pc \in BatchPcs \cup {"loop", "summary", "decide"} => mode = "Training"
    /\ (pc \in {"save_model", "plot_latent", "plot_recon"}
          \/ (pc \in {"return", "returned"} /\ branch # "none"))
       => mode = "Evaluation"

\* C5 witness: the model forward pass of an epoch that follows a checkpointing
\* epoch, in Training mode.
C5_Witness == prevEval /\ pc = "forward" /\ mode = "Training"

\* C6: the weighted KL term is exactly 1 when kl_raw * kl_weight > 1 and is
\* kl_raw * kl_weight otherwise, so it never exceeds 1.
C6_KlClamp ==
    nLoss > 0 =>
      /\ (loss_kl * kl_weight > 1) => loss_kl_weighted = 1
      /\ (loss_kl * kl_weight <= 1) => loss_kl_weighted = loss_kl * kl_weight
      /\ loss_kl_weighted <= 1

\* C6 witness: a batch whose raw weighted KL exceeded 1 and was clamped.
C6_Witness ==
    /\ pc = "backward" /\ loss_kl * kl_weight > 1 /\ loss_kl_weighted = 1

\* C7: the loss that is backpropagated and accumulated is
\* recon*5 + zinb + fraction*10 + kl_weighted, with the clamped KL term.
C7_CompositeLoss ==
    /\ nLoss > 0 =>
         loss = loss_recon * 5 + zinb_loss_val + fraction_loss * 10 + loss_kl_weighted
    /\ (nAccum > 0 /\ nAccum = nLoss) =>
         /\ losses[nAccum] = loss
         /\ total_loss = SumSeq(losses)

\* C7 witness: recon 1, zinb 2, fraction 1 and a clamped KL term give 18,
\* accumulated.
C7_Witness ==
    /\ nAccum = 1 /\ loss_recon = 1 /\ zinb_loss_val = 2 /\ fraction_loss = 1
    /\ loss_kl * kl_weight > 1 /\ loss_kl_weighted = 1 /\ loss = 18
    /\ total_loss = 18

\* content is the mean of t over the sample axis.
IsMeanOf(content, t) ==
    /\ Len(content) = 2 /\ content[2] > 0
    /\ content[1] * Len(t) = content[2] * SumSeq(t)

\* C8: after an epoch of at least one batch, the summary metrics and the saved
\* reconstruction and batch means are those of the forward pass and loss of
\* the last batch, computed before that batch's optimizer step.
C8_LastBatchValues ==
    /\ summary.printed =>
         /\ last.idx = idx /\ last.lossIdx = idx /\ idx = nForward - 1
         /\ last.steps = nStep - 1
         /\ summary.fraction_loss = last.fraction_loss
         /\ summary.loss_kl = last.loss_kl
         /\ summary.loss_kl_weighted = last.loss_kl_weighted
         /\ summary.loss_recon = last.loss_recon
         /\ summary.kl_weight = kl_weight
    /\ \A i \in 1..Len(writes) :
         /\ summary.printed
         /\ writes[i].artifact = "reconstructed" => writes[i].content = last.reconstructed
         /\ writes[i].artifact = "mus" => IsMeanOf(writes[i].content, last.mus)
         /\ writes[i].artifact = "logvars" => IsMeanOf(writes[i].content, last.logvars)
         /\ writes[i].artifact = "pis" => IsMeanOf(writes[i].content, last.pis)

\* C8 witness: a two-batch epoch saved the mean 1/2 of the last batch's mus.
C8_Witness ==
    /\ pc = "returned" /\ idx = 1 /\ Len(writes) >= 5
    /\ last.mus = <<0, 1>>
    /\ writes[2].artifact = "mus" /\ writes[2].content = <<1, 2>>

BatchOrder == <<"zero_grad", "forward", "shape_check", "loss", "backward", "step",
                "accumulate">>

\* C9 (as claimed): the operations of a batch run in the fixed order, at every
\* point the optimizer steps taken equal the batches accumulated, and no
\* forward pass starts before the previous batch's step.
C9_StepsEqualAccumulatedEverywhere ==
    /\ IsPrefix(oplog, BatchOrder)
    /\ nStep = nAccum
    /\ pc = "forward" => nStep = idx

\* C9 (amended): the same, except that between a batch's optimizer step
\* (line 76) and its accumulation (line 78) the steps taken are one more than
\* the batches accumulated.
C9_BatchOrder ==
    /\ IsPrefix(oplog, BatchOrder)
    /\ pc \in BatchPcs => /\ Len(oplog) < Len(BatchOrder)
                          /\ BatchOrder[Len(oplog) + 1] = pc
    /\ nStep = nAccum + (IF pc = "accumulate" THEN 1 ELSE 0)
    /\ nBackward = nStep + (IF pc = "step" THEN 1 ELSE 0)
    /\ pc = "forward" => (nStep = idx /\ nForward = idx)
    /\ nForward <= nStep + 1
    /\ (pc \notin BatchPcs /\ ~ShapeMismatchRaised) => (nStep = idx + 1 /\ nAccum = idx + 1)

\* C9 witness: the second batch's step is applied and its loss not yet added.
C9_Witness == pc = "accumulate" /\ idx = 1 /\ nStep = 2 /\ nAccum = 1

SaveOrder == <<"reconstructed", "mus", "logvars", "pis", "model", "umap_latent",
               "umap_recon">>

\* C10: a failed artifact write ends the call at once: every save statement
\* runs at most once and in order, the failing one is the last, the files
\* written before it stay, the epoch's optimizer steps stand, and nothing is
\* returned.
C10_WriteFailurePropagates ==
    /\ IsPrefix(attempted, SaveOrder)
    /\ Len(writes) <= Len(attempted)
    /\ \A i \in 1..Len(writes) : writes[i].artifact = attempted[i]
    /\ Len(attempted) # Len(writes) =>
         /\ WriteFailed
         /\ Len(attempted) = Len(writes) + 1
         /\ err.line = SaveLine(branch, attempted[Len(attempted)])
         /\ nStep = idx + 1 /\ nAccum = idx + 1
         /\ retval = 0
    /\ WriteFailed => Len(attempted) = Len(writes) + 1

\* C10 witness: the third write failed, two artifacts are on disk, both
\* optimizer steps of the epoch stand.
C10_Witness ==
    /\ pc = "raised" /\ err.type = "OSError" /\ Len(writes) = 2
    /\ attempted = <<"reconstructed", "mus", "logvars">> /\ nStep = 2

====
